---- MODULE Spec2Model ----
(***************************************************************************)
(* Brute-force frequent-itemset mining and association-rule derivation,    *)
(* as implemented three times in the repository:                           *)
(*   "module"           algorithms_brute_force.py (free functions)         *)
(*   "BruteForceMiner"  src/brute_force_mining.py (class BruteForceMiner)  *)
(*   "InteractiveMiner" main.py (class InteractiveMiner)                   *)
(*                                                                         *)
(* Items are strings in the source; here they are the integers             *)
(* 1..NumItems and < stands for the lexicographic order of the strings.    *)
(* min_support, min_confidence and the rule metrics are floats in the      *)
(* source; here they are exact rationals <<numerator, denominator>> in     *)
(* lowest terms.  The thresholds are drawn from dyadic values, which       *)
(* floats represent exactly.                                               *)
(***************************************************************************)
EXTENDS Integers, Sequences, FiniteSets, TLC

NumItems == 3
MaxTrans == 2
MaxReloads == 1
MaxLoads == 3

Items == 1..NumItems
Itemsets == (SUBSET Items) \ {{}}

\* The four rows A,B / A,B,C / A / B,C (A, B, C are the items 1, 2, 3).
ExampleTransactions == <<{1, 2}, {1, 2, 3}, {1}, {2, 3}>>

\* A loaded CSV file: every row yields a non-empty frozenset of items.
Databases == UNION {[1..n -> Itemsets] : n \in 0..MaxTrans}
                 \cup {ExampleTransactions}

Impls == {"module", "BruteForceMiner", "InteractiveMiner"}

\* min_support: a fraction in [0,1) or an absolute count >= 1.
MinSupports == {<<0, 1>>, <<1, 2>>, <<3, 4>>, <<1, 1>>, <<2, 1>>, <<3, 1>>}

\* min_confidence: a fraction in [0,1].
MinConfidences == {<<0, 1>>, <<1, 2>>, <<1, 1>>}

VARIABLES
    impl,               \* which of the three implementations runs
    min_support,        \* <<num, den>>
    min_confidence,     \* <<num, den>>
    transactions,       \* list of frozensets
    num_transactions,   \* self.num_transactions of the two classes
    all_items,          \* set of items (the universe)
    items_list,         \* sorted(list(all_items))
    k,                  \* current itemset size
    all_k_itemsets,     \* candidates of size k, in generation order
    i,                  \* number of candidates of this level already tested
    frequent_k,         \* list of <<itemset, count>> found at this level
    frequent_itemsets,  \* dict k -> list of <<itemset, count>>
    rule_transactions,  \* the transactions the rule generator counts over
    rules,              \* list of rule records
    err,                \* "none" or the exception that ended the run
    loads,              \* outcome of each load_transactions call so far
    algo_choice,        \* algo_choice of InteractiveMiner.run
    pc

vars == <<impl, min_support, min_confidence, transactions, num_transactions,
          all_items, items_list, k, all_k_itemsets, i, frequent_k,
          frequent_itemsets, rule_transactions, rules, err, loads,
          algo_choice, pc>>

----------------------------------------------------------------------------
(* Exact rationals *)

RECURSIVE GCD(_, _)
GCD(a, b) == IF b = 0 THEN a ELSE GCD(b, a % b)

\* n / d in lowest terms (d > 0, n >= 0)
Rat(n, d) == LET g == GCD(n, d) IN <<n \div g, d \div g>>

RatGE(a, b) == a[1] * b[2] >= b[1] * a[2]
RatGT(a, b) == a[1] * b[2] > b[1] * a[2]
RatLT(a, b) == a[1] * b[2] < b[1] * a[2]
RatEQ(a, b) == a[1] * b[2] = b[1] * a[2]

----------------------------------------------------------------------------
(* Python built-ins *)

Min(S) == CHOOSE x \in S : \A y \in S : x <= y
Max(S) == CHOOSE x \in S : \A y \in S : y <= x

\* sorted(list(S))
RECURSIVE sorted(_)
sorted(S) == IF S = {} THEN <<>> ELSE <<Min(S)>> \o sorted(S \ {Min(S)})

RECURSIVE PrependAll(_, _)
PrependAll(x, ss) ==
    IF ss = <<>> THEN <<>>
    ELSE <<(<<x>> \o Head(ss))>> \o PrependAll(x, Tail(ss))

\* itertools.combinations(s, r): the r-length subsequences of s, as tuples,
\* in lexicographic order of their positions.
RECURSIVE combinations(_, _)
combinations(s, r) ==
    IF r = 0 THEN << <<>> >>
    ELSE IF Len(s) < r THEN <<>>
    ELSE PrependAll(Head(s), combinations(Tail(s), r - 1))
         \o combinations(Tail(s), r)

\* frozenset(tuple)
frozenset(t) == {t[j] : j \in DOMAIN t}

RECURSIVE MapFrozenset(_)
MapFrozenset(ss) ==
    IF ss = <<>> THEN <<>> ELSE <<frozenset(Head(ss))>> \o MapFrozenset(Tail(ss))

\* set.update over every row of a loaded file
ItemsOf(db) == UNION {db[j] : j \in DOMAIN db}

----------------------------------------------------------------------------
(* Support counting and the minimum-support test *)

\* Variant: the loop is left at the first transaction without the itemset.
get_support_count_prefix(itemset, ts) ==
    LET RECURSIVE loop(_, _)
        loop(j, count) ==
            IF j > Len(ts) THEN count
            ELSE IF itemset \subseteq ts[j] THEN loop(j + 1, count + 1)
            ELSE count
    IN loop(1, 0)

\* Variant: a transaction counts as soon as it shares an item with the itemset.
get_support_count_overlap(itemset, ts) ==
    Cardinality({j \in DOMAIN ts : itemset \cap ts[j] # {}})

\* Variant: the inclusion test is turned around (transaction within itemset).
get_support_count_issuperset(itemset, ts) ==
    Cardinality({j \in DOMAIN ts : ts[j] \subseteq itemset})

\* Variant: equal transactions are counted once.
get_support_count_distinct(itemset, ts) ==
    Cardinality({ts[j] : j \in {h \in DOMAIN ts : itemset \subseteq ts[h]}})

\* algorithms_brute_force.get_support_count(itemset, transactions)
get_support_count(itemset, ts) ==
    LET RECURSIVE loop(_, _)
        loop(j, count) ==
            IF j > Len(ts) THEN count
            ELSE loop(j + 1, IF itemset \subseteq ts[j] THEN count + 1 ELSE count)
    IN loop(1, 0)

\* BruteForceMiner.get_support_count(self, itemset)
BruteForceMiner_get_support_count(itemset) ==
    LET RECURSIVE loop(_, _)
        loop(j, count) ==
            IF j > Len(transactions) THEN count
            ELSE loop(j + 1, IF itemset \subseteq transactions[j]
                             THEN count + 1 ELSE count)
    IN loop(1, 0)

\* InteractiveMiner.get_support_count(self, itemset)
InteractiveMiner_get_support_count(itemset) ==
    LET RECURSIVE loop(_, _)
        loop(j, count) ==
            IF j > Len(transactions) THEN count
            ELSE loop(j + 1, IF itemset \subseteq transactions[j]
                             THEN count + 1 ELSE count)
    IN loop(1, 0)

\* Variant: the comparison is turned around (<= for >=).
is_frequent_at_most(itemset, ts, ms) ==
    LET support_count == get_support_count(itemset, ts)
    IN IF RatLT(ms, <<1, 1>>)
       THEN RatGE(<<ms[1] * Len(ts), ms[2]>>, <<support_count, 1>>)
       ELSE RatGE(ms, <<support_count, 1>>)

\* Variant: the threshold has to be exceeded.
is_frequent_strict(itemset, ts, ms) ==
    LET support_count == get_support_count(itemset, ts)
    IN IF RatLT(ms, <<1, 1>>)
       THEN RatGT(<<support_count, 1>>, <<ms[1] * Len(ts), ms[2]>>)
       ELSE RatGT(<<support_count, 1>>, ms)

\* Variant: every min_support is read as a fraction of the transactions.
is_frequent_relative_only(itemset, ts, ms) ==
    LET support_count == get_support_count(itemset, ts)
    IN RatGE(<<support_count, 1>>, <<ms[1] * Len(ts), ms[2]>>)

\* Variant: an absolute min_support is capped at the number of transactions.
is_frequent_capped(itemset, ts, ms) ==
    LET support_count == get_support_count(itemset, ts)
    IN IF RatLT(ms, <<1, 1>>)
       THEN RatGE(<<support_count, 1>>, <<ms[1] * Len(ts), ms[2]>>)
       ELSE \/ RatGE(<<support_count, 1>>, ms)
            \/ support_count = Len(ts)

\* Variant: min_support = 1 is still read as a fraction (<= 1 for < 1).
is_frequent_fraction_one(itemset, ts, ms) ==
    LET support_count == get_support_count(itemset, ts)
    IN IF ~RatGT(ms, <<1, 1>>)
       THEN RatGE(<<support_count, 1>>, <<ms[1] * Len(ts), ms[2]>>)
       ELSE RatGE(<<support_count, 1>>, ms)

\* algorithms_brute_force.is_frequent(itemset, transactions, min_support)
is_frequent(itemset, ts, ms) ==
    LET support_count == get_support_count(itemset, ts)
    IN IF RatLT(ms, <<1, 1>>)
       THEN RatGE(<<support_count, 1>>, <<ms[1] * Len(ts), ms[2]>>)
       ELSE RatGE(<<support_count, 1>>, ms)

\* Variant: the fraction is taken of a transaction count of 0.
BruteForceMiner_is_frequent_unloaded(itemset) ==
    LET support_count == BruteForceMiner_get_support_count(itemset)
    IN IF RatLT(min_support, <<1, 1>>)
       THEN RatGE(<<support_count, 1>>, <<min_support[1] * 0, min_support[2]>>)
       ELSE RatGE(<<support_count, 1>>, min_support)

\* BruteForceMiner.is_frequent(self, itemset)
BruteForceMiner_is_frequent(itemset) ==
    LET support_count == BruteForceMiner_get_support_count(itemset)
    IN IF RatLT(min_support, <<1, 1>>)
       THEN RatGE(<<support_count, 1>>,
                  <<min_support[1] * num_transactions, min_support[2]>>)
       ELSE RatGE(<<support_count, 1>>, min_support)

\* InteractiveMiner.is_frequent(self, itemset, min_support)
InteractiveMiner_is_frequent(itemset, ms) ==
    LET support_count == InteractiveMiner_get_support_count(itemset)
    IN IF RatLT(ms, <<1, 1>>)
       THEN RatGE(<<support_count, 1>>, <<ms[1] * num_transactions, ms[2]>>)
       ELSE RatGE(<<support_count, 1>>, ms)

\* The calls the mining loop of the running implementation makes.
CallIsFrequent(itemset) ==
    CASE impl = "module" -> is_frequent(itemset, transactions, min_support)
      [] impl = "BruteForceMiner" -> BruteForceMiner_is_frequent(itemset)
      [] impl = "InteractiveMiner" -> InteractiveMiner_is_frequent(itemset, min_support)

CallGetSupportCount(itemset) ==
    CASE impl = "module" -> get_support_count(itemset, transactions)
      [] impl = "BruteForceMiner" -> BruteForceMiner_get_support_count(itemset)
      [] impl = "InteractiveMiner" -> InteractiveMiner_get_support_count(itemset)

----------------------------------------------------------------------------
(* Loading and the level-wise mining loop *)

EmptyDict == [j \in {} |-> <<>>]

DictSet(d, key, val) ==
    [j \in (DOMAIN d) \cup {key} |-> IF j = key THEN val ELSE d[j]]

Init ==
    /\ impl \in Impls
    /\ min_support \in MinSupports
    /\ min_confidence \in MinConfidences
    /\ transactions = <<>>
    /\ num_transactions = 0
    /\ all_items = {}
    /\ items_list = <<>>
    /\ k = 0
    /\ all_k_itemsets = <<>>
    /\ i = 0
    /\ frequent_k = <<>>
    /\ frequent_itemsets = EmptyDict
    /\ rule_transactions = <<>>
    /\ rules = <<>>
    /\ err = "none"
    /\ loads = <<>>
    /\ algo_choice = "None"
    /\ pc = "init"

\* Variant: a file without rows still contributes one item to the universe.
load_transactions_blank(db) ==
    /\ pc = "init"
    /\ transactions' = db
    /\ all_items' = IF db = <<>> THEN {1} ELSE ItemsOf(db)
    /\ num_transactions' = IF impl = "module" THEN num_transactions ELSE Len(db)
    /\ loads' = Append(loads, "ok")
    /\ pc' = "loaded"
    /\ UNCHANGED <<impl, min_support, min_confidence, items_list, k,
                   all_k_itemsets, i, frequent_k, frequent_itemsets,
                   rule_transactions, rules, err, algo_choice>>

\* load_transactions of the three implementations.  The module function and
\* InteractiveMiner start from an empty item set; BruteForceMiner updates
\* self.all_items in place.
load_transactions(db) ==
    /\ pc = "init"
    /\ transactions' = db
    /\ all_items' = IF impl = "BruteForceMiner"
                    THEN all_items \cup ItemsOf(db)
                    ELSE ItemsOf(db)
    /\ num_transactions' = IF impl = "module" THEN num_transactions ELSE Len(db)
    /\ loads' = Append(loads, "ok")
    /\ pc' = "loaded"
    /\ UNCHANGED <<impl, min_support, min_confidence, items_list, k,
                   all_k_itemsets, i, frequent_k, frequent_itemsets,
                   rule_transactions, rules, err, algo_choice>>

\* Variant: the items are popped from all_items while the list is built.
StartMining_pop ==
    /\ pc = "loaded"
    /\ items_list' = sorted(all_items)
    /\ all_items' = {}
    /\ frequent_itemsets' = IF impl = "BruteForceMiner"
                            THEN frequent_itemsets ELSE EmptyDict
    /\ k' = 1
    /\ all_k_itemsets' = MapFrozenset(combinations(items_list', 1))
    /\ i' = 0
    /\ frequent_k' = <<>>
    /\ pc' = "testing"
    /\ UNCHANGED <<loads, algo_choice>>
    /\ UNCHANGED <<impl, min_support, min_confidence, transactions,
                   num_transactions, rule_transactions, rules, err>>

\* Entry of the mining function up to the first candidate list (k = 1).
\* frequent_itemsets is a fresh local dict in the module function and in
\* InteractiveMiner.run_brute_force; BruteForceMiner keeps self.frequent_itemsets.
StartMining ==
    /\ pc = "loaded"
    /\ items_list' = sorted(all_items)
    /\ frequent_itemsets' = IF impl = "BruteForceMiner"
                            THEN frequent_itemsets ELSE EmptyDict
    /\ k' = 1
    /\ all_k_itemsets' = MapFrozenset(combinations(items_list', 1))
    /\ i' = 0
    /\ frequent_k' = <<>>
    /\ pc' = "testing"
    /\ UNCHANGED <<loads, algo_choice>>
    /\ UNCHANGED <<impl, min_support, min_confidence, transactions,
                   num_transactions, all_items, rule_transactions, rules, err>>

\* Variant: a frequent itemset is put at the front of the list.
TestItemset_prepend ==
    /\ pc = "testing"
    /\ i < Len(all_k_itemsets)
    /\ LET itemset == all_k_itemsets[i + 1]
       IN frequent_k' = IF CallIsFrequent(itemset)
                        THEN << <<itemset, CallGetSupportCount(itemset)>> >>
                             \o frequent_k
                        ELSE frequent_k
    /\ i' = i + 1
    /\ UNCHANGED <<loads, algo_choice>>
    /\ UNCHANGED <<impl, min_support, min_confidence, transactions,
                   num_transactions, all_items, items_list, k, all_k_itemsets,
                   frequent_itemsets, rule_transactions, rules, err, pc>>

\* One iteration of "for itemset in all_k_itemsets".
TestItemset ==
    /\ pc = "testing"
    /\ i < Len(all_k_itemsets)
    /\ LET itemset == all_k_itemsets[i + 1]
       IN frequent_k' = IF CallIsFrequent(itemset)
                        THEN Append(frequent_k,
                                    <<itemset, CallGetSupportCount(itemset)>>)
                        ELSE frequent_k
    /\ i' = i + 1
    /\ UNCHANGED <<loads, algo_choice>>
    /\ UNCHANGED <<impl, min_support, min_confidence, transactions,
                   num_transactions, all_items, items_list, k, all_k_itemsets,
                   frequent_itemsets, rule_transactions, rules, err, pc>>

\* Variant: the loop is left as soon as the list of frequent k-itemsets is
\* found empty, also before the last candidate was tested.
StopMining_early ==
    /\ pc = "testing"
    /\ frequent_k = <<>>
    /\ pc' = "mined"
    /\ UNCHANGED <<loads, algo_choice>>
    /\ UNCHANGED <<impl, min_support, min_confidence, transactions,
                   num_transactions, all_items, items_list, k, all_k_itemsets,
                   i, frequent_k, frequent_itemsets, rule_transactions, rules,
                   err>>

\* Variant: the loop is also left when a single k-itemset was frequent.
StopMining_single ==
    /\ pc = "testing"
    /\ i = Len(all_k_itemsets)
    /\ Len(frequent_k) < 2
    /\ pc' = "mined"
    /\ UNCHANGED <<loads, algo_choice>>
    /\ UNCHANGED <<impl, min_support, min_confidence, transactions,
                   num_transactions, all_items, items_list, k, all_k_itemsets,
                   i, frequent_k, frequent_itemsets, rule_transactions, rules,
                   err>>

\* After the for loop: nothing frequent at this size, break.
StopMining ==
    /\ pc = "testing"
    /\ i = Len(all_k_itemsets)
    /\ frequent_k = <<>>
    /\ pc' = "mined"
    /\ UNCHANGED <<loads, algo_choice>>
    /\ UNCHANGED <<impl, min_support, min_confidence, transactions,
                   num_transactions, all_items, items_list, k, all_k_itemsets,
                   i, frequent_k, frequent_itemsets, rule_transactions, rules,
                   err>>

\* Variant: k is not incremented, the same size is tested again.
AdvanceLevel_stay ==
    /\ pc = "testing"
    /\ i = Len(all_k_itemsets)
    /\ frequent_k # <<>>
    /\ frequent_itemsets' = DictSet(frequent_itemsets, k, frequent_k)
    /\ k' = k
    /\ all_k_itemsets' = MapFrozenset(combinations(items_list, k'))
    /\ i' = 0
    /\ frequent_k' = <<>>
    /\ UNCHANGED <<loads, algo_choice>>
    /\ UNCHANGED <<impl, min_support, min_confidence, transactions,
                   num_transactions, all_items, items_list, rule_transactions,
                   rules, err, pc>>

\* Variant: the level is stored under the number of its records.
AdvanceLevel_key ==
    /\ pc = "testing"
    /\ i = Len(all_k_itemsets)
    /\ frequent_k # <<>>
    /\ frequent_itemsets' = DictSet(frequent_itemsets, Len(frequent_k), frequent_k)
    /\ k' = k + 1
    /\ all_k_itemsets' = MapFrozenset(combinations(items_list, k'))
    /\ i' = 0
    /\ frequent_k' = <<>>
    /\ UNCHANGED <<loads, algo_choice>>
    /\ UNCHANGED <<impl, min_support, min_confidence, transactions,
                   num_transactions, all_items, items_list, rule_transactions,
                   rules, err, pc>>

\* Variant: the next candidates are built from the items of the frequent
\* k-itemsets only.
AdvanceLevel_pruned ==
    /\ pc = "testing"
    /\ i = Len(all_k_itemsets)
    /\ frequent_k # <<>>
    /\ frequent_itemsets' = DictSet(frequent_itemsets, k, frequent_k)
    /\ k' = k + 1
    /\ all_k_itemsets' = MapFrozenset(combinations(
            sorted(UNION {frequent_k[j][1] : j \in DOMAIN frequent_k}), k'))
    /\ i' = 0
    /\ frequent_k' = <<>>
    /\ UNCHANGED <<loads, algo_choice>>
    /\ UNCHANGED <<impl, min_support, min_confidence, transactions,
                   num_transactions, all_items, items_list, rule_transactions,
                   rules, err, pc>>

\* After the for loop: record the level, k += 1, build the next candidates.
\* BruteForceMiner.find_frequent_itemsets lists the level it just stored with
\* count / self.num_transactions, which raises when num_transactions is 0.
AdvanceLevel ==
    /\ pc = "testing"
    /\ i = Len(all_k_itemsets)
    /\ frequent_k # <<>>
    /\ frequent_itemsets' = DictSet(frequent_itemsets, k, frequent_k)
    /\ IF impl = "BruteForceMiner" /\ num_transactions = 0
       THEN /\ err' = "ZeroDivisionError"
            /\ pc' = "mining_failed"
            /\ UNCHANGED <<k, all_k_itemsets, i, frequent_k>>
       ELSE /\ k' = k + 1
            /\ all_k_itemsets' = MapFrozenset(combinations(items_list, k'))
            /\ i' = 0
            /\ frequent_k' = <<>>
            /\ UNCHANGED <<err, pc>>
    /\ UNCHANGED <<loads, algo_choice>>
    /\ UNCHANGED <<impl, min_support, min_confidence, transactions,
                   num_transactions, all_items, items_list, rule_transactions,
                   rules>>

\* brute_force_mining(transactions, all_items, min_support) as one call: the
\* table it returns.  Level kk is the list of the frequent kk-combinations of
\* the sorted items with their counts; the loop ends at the first empty level.
brute_force_mining(ts, items, ms) ==
    LET items_list_ == sorted(items)
        level(kk) ==
            LET candidates == MapFrozenset(combinations(items_list_, kk))
                Frequent(itemset) == is_frequent(itemset, ts, ms)
                found == SelectSeq(candidates, Frequent)
            IN [j \in DOMAIN found |-> <<found[j], get_support_count(found[j], ts)>>]
        RECURSIVE loop(_, _)
        loop(kk, table) ==
            IF level(kk) = <<>> THEN table
            ELSE loop(kk + 1, DictSet(table, kk, level(kk)))
    IN loop(1, EmptyDict)

----------------------------------------------------------------------------
(* Rule generation *)

\* The iteration order of a frozenset of strings is fixed by the string
\* hashes of the running interpreter; an order is a permutation of Items and
\* list(itemset) lists the members of itemset in that order.
Orders == {p \in [1..NumItems -> Items] :
              \A a, b \in 1..NumItems : a # b => p[a] # p[b]}

RECURSIVE list(_, _)
list(itemset, order) ==
    IF order = <<>> THEN <<>>
    ELSE IF Head(order) \in itemset
         THEN <<Head(order)>> \o list(itemset, Tail(order))
         ELSE list(itemset, Tail(order))

\* Variant: range(0, len(items) + 1), the empty and the full antecedent too.
SplitsOfRecord_full(rec, order) ==
    LET items == list(rec[1], order)
        RECURSIVE tag(_)
        tag(cs) == IF cs = <<>> THEN <<>>
                   ELSE << <<rec[1], rec[2], frozenset(Head(cs))>> >> \o tag(Tail(cs))
        RECURSIVE bySize(_)
        bySize(n) == IF n >= Len(items) + 1 THEN <<>>
                     ELSE tag(combinations(items, n)) \o bySize(n + 1)
    IN bySize(0)

\* Variant: range(1, len(items) - 1), the largest antecedents are left out.
SplitsOfRecord_short(rec, order) ==
    LET items == list(rec[1], order)
        RECURSIVE tag(_)
        tag(cs) == IF cs = <<>> THEN <<>>
                   ELSE << <<rec[1], rec[2], frozenset(Head(cs))>> >> \o tag(Tail(cs))
        RECURSIVE bySize(_)
        bySize(n) == IF n >= Len(items) - 1 THEN <<>>
                     ELSE tag(combinations(items, n)) \o bySize(n + 1)
    IN bySize(1)

\* for i in range(1, len(items)): for antecedent_items in combinations(items, i)
\* as the list of <<itemset, support_count, antecedent>> in loop order.
SplitsOfRecord(rec, order) ==
    LET items == list(rec[1], order)
        RECURSIVE tag(_)
        tag(cs) == IF cs = <<>> THEN <<>>
                   ELSE << <<rec[1], rec[2], frozenset(Head(cs))>> >> \o tag(Tail(cs))
        RECURSIVE bySize(_)
        bySize(n) == IF n >= Len(items) THEN <<>>
                     ELSE tag(combinations(items, n)) \o bySize(n + 1)
    IN bySize(1)

RECURSIVE SplitsOfLevel(_, _)
SplitsOfLevel(recs, order) ==
    IF recs = <<>> THEN <<>>
    ELSE SplitsOfRecord(Head(recs), order) \o SplitsOfLevel(Tail(recs), order)

\* for k in range(2, max(keys) + 1): if k not in dict: continue; for record ...
\* (the dict is not empty)
AllSplits(fi, order) ==
    LET RECURSIVE byKey(_)
        byKey(kk) == IF kk > Max(DOMAIN fi) THEN <<>>
                     ELSE (IF kk \in DOMAIN fi
                           THEN SplitsOfLevel(fi[kk], order) ELSE <<>>)
                          \o byKey(kk + 1)
    IN byKey(2)

\* sorted(rules, key=lambda x: (x['confidence'], x['support']), reverse=True):
\* a stable sort, descending in the key tuple.  The rules are laid out key by
\* key from the largest key down; rules with the same key keep their order.
RuleKey(r) == <<r.confidence, r.support>>

KeyGT(a, b) ==
    \/ RatGT(a[1], b[1])
    \/ RatEQ(a[1], b[1]) /\ RatGT(a[2], b[2])

LargestKey(keys) == CHOOSE a \in keys : \A b \in keys : ~KeyGT(b, a)

WithKey(rs, key) ==
    LET Has(r) == RuleKey(r) = key
    IN SelectSeq(rs, Has)

RECURSIVE SortByKeys(_, _)
SortByKeys(rs, keys) ==
    IF keys = {} THEN <<>>
    ELSE WithKey(rs, LargestKey(keys))
         \o SortByKeys(rs, keys \ {LargestKey(keys)})

\* Variant: reverse=True is left out, the smallest key comes first.
sort_rules_ascending(rs) ==
    LET RECURSIVE go(_)
        go(keys) ==
            IF keys = {} THEN <<>>
            ELSE go(keys \ {LargestKey(keys)}) \o WithKey(rs, LargestKey(keys))
    IN go({RuleKey(rs[j]) : j \in DOMAIN rs})

\* Variant: the sort key is the confidence alone.
sort_rules_confidence_only(rs) ==
    LET RECURSIVE go(_)
        go(cs) ==
            IF cs = {} THEN <<>>
            ELSE LET top == CHOOSE a \in cs : \A b \in cs : ~RatGT(b, a)
                     Has(r) == r.confidence = top
                 IN SelectSeq(rs, Has) \o go(cs \ {top})
    IN go({rs[j].confidence : j \in DOMAIN rs})

sort_rules(rs) == SortByKeys(rs, {RuleKey(rs[j]) : j \in DOMAIN rs})

\* What the loop body does with each split, in loop order: "skip" (continue or
\* confidence below the threshold), "rule" (append) or "raise".  The loop ends
\* at the first "raise"; the rules appended before it stay in the list.
RunLoop(steps) ==
    LET raising == {j \in DOMAIN steps : steps[j].kind = "raise"}
        last == IF raising = {} THEN Len(steps) ELSE Min(raising) - 1
        IsRule(step) == step.kind = "rule"
        appended == SelectSeq(SubSeq(steps, 1, last), IsRule)
        acc == [j \in DOMAIN appended |-> appended[j].rule]
    IN IF raising = {}
       THEN [rules |-> sort_rules(acc), err |-> "none"]
       ELSE [rules |-> acc, err |-> steps[Min(raising)].err]

Skip == [kind |-> "skip"]
Raise(e) == [kind |-> "raise", err |-> e]
Emit(r) == [kind |-> "rule", rule |-> r]

\* Variant: lift is taken against the support of the antecedent.
rule_dict_lift_antecedent(antecedent, consequent, support_count, antecedent_support_count, consequent_count, num) ==
    [antecedent |-> antecedent,
     consequent |-> consequent,
     support |-> Rat(support_count, num),
     confidence |-> Rat(support_count, antecedent_support_count),
     lift |-> Rat(support_count * num,
                  antecedent_support_count * antecedent_support_count)]

\* The metrics and the dict appended by algorithms_brute_force
\* .generate_association_rules once a split passed the confidence test.
rule_dict(antecedent, consequent, support_count, antecedent_support_count, consequent_count, num) ==
    [antecedent |-> antecedent,
     consequent |-> consequent,
     support |-> Rat(support_count, num),
     confidence |-> Rat(support_count, antecedent_support_count),
     lift |-> IF consequent_count > 0
              THEN Rat(support_count * num,
                       antecedent_support_count * consequent_count)
              ELSE <<0, 1>>]

\* The same in InteractiveMiner.generate_rules.
InteractiveMiner_rule_dict(antecedent, consequent, support_count, antecedent_support_count, consequent_count, num) ==
    [antecedent |-> antecedent,
     consequent |-> consequent,
     support |-> Rat(support_count, num),
     confidence |-> Rat(support_count, antecedent_support_count),
     lift |-> IF consequent_count > 0
              THEN Rat(support_count * num,
                       antecedent_support_count * consequent_count)
              ELSE <<0, 1>>]

\* algorithms_brute_force.generate_association_rules(frequent_itemsets,
\* transactions, min_confidence)
generate_association_rules(fi, ts, mc, order) ==
    IF DOMAIN fi = {}
    THEN [rules |-> <<>>, err |-> "ValueError"]     \* max() of an empty sequence
    ELSE
    LET num == Len(ts)
        splits == AllSplits(fi, order)
        body(itemset, support_count, antecedent) ==
            LET consequent == itemset \ antecedent
                antecedent_support_count == get_support_count(antecedent, ts)
            IN  IF antecedent_support_count = 0 THEN Skip
                ELSE IF ~RatGE(Rat(support_count, antecedent_support_count), mc)
                THEN Skip
                ELSE IF num = 0 THEN Raise("ZeroDivisionError")
                ELSE
                Emit(rule_dict(antecedent, consequent, support_count,
                               antecedent_support_count,
                               get_support_count(consequent, ts), num))
    IN RunLoop([j \in DOMAIN splits |->
                  body(splits[j][1], splits[j][2], splits[j][3])])

\* BruteForceMiner.get_support(self, itemset); <<0, 0>> stands for the
\* ZeroDivisionError of count / 0.
BruteForceMiner_get_support(itemset) ==
    IF num_transactions = 0 THEN <<0, 0>>
    ELSE Rat(BruteForceMiner_get_support_count(itemset), num_transactions)

\* BruteForceMiner.generate_association_rules(self): works on
\* self.frequent_itemsets; on an exception self.association_rules keeps the
\* rules appended so far, unsorted.
BruteForceMiner_generate_association_rules(order) ==
    IF DOMAIN frequent_itemsets = {}
    THEN [rules |-> <<>>, err |-> "ValueError"]     \* max() of an empty sequence
    ELSE
    LET splits == AllSplits(frequent_itemsets, order)
        body(itemset, support_count, antecedent) ==
            LET consequent == itemset \ antecedent
                antecedent_support_count ==
                    BruteForceMiner_get_support_count(antecedent)
            IN  IF antecedent_support_count = 0 THEN Skip
                ELSE IF ~RatGE(Rat(support_count, antecedent_support_count),
                               min_confidence)
                THEN Skip
                ELSE IF num_transactions = 0 THEN Raise("ZeroDivisionError")
                ELSE
                LET consequent_support == BruteForceMiner_get_support(consequent)
                IN  IF consequent_support[1] = 0   \* confidence / 0.0
                    THEN Raise("ZeroDivisionError")
                    ELSE Emit(
                      [antecedent |-> antecedent,
                       consequent |-> consequent,
                       support |-> Rat(support_count, num_transactions),
                       confidence |-> Rat(support_count, antecedent_support_count),
                       lift |-> Rat(support_count * consequent_support[2],
                                    antecedent_support_count * consequent_support[1]),
                       support_count |-> support_count])
    IN RunLoop([j \in DOMAIN splits |->
                  body(splits[j][1], splits[j][2], splits[j][3])])

\* InteractiveMiner.generate_rules(self, frequent_itemsets, min_confidence)
InteractiveMiner_generate_rules(fi, mc, order) ==
    IF DOMAIN fi = {}
    THEN [rules |-> <<>>, err |-> "none"]           \* if not frequent_itemsets
    ELSE
    LET splits == AllSplits(fi, order)
        body(itemset, support_count, antecedent) ==
            LET consequent == itemset \ antecedent
                antecedent_support_count ==
                    InteractiveMiner_get_support_count(antecedent)
            IN  IF antecedent_support_count = 0 THEN Skip
                ELSE IF ~RatGE(Rat(support_count, antecedent_support_count), mc)
                THEN Skip
                ELSE IF num_transactions = 0 THEN Raise("ZeroDivisionError")
                ELSE
                Emit(InteractiveMiner_rule_dict(
                         antecedent, consequent, support_count,
                         antecedent_support_count,
                         InteractiveMiner_get_support_count(consequent),
                         num_transactions))
    IN RunLoop([j \in DOMAIN splits |->
                  body(splits[j][1], splits[j][2], splits[j][3])])

\* The transaction lists a caller of the module-level rule generator passes:
\* the mined list or a leading part of it.  The two classes always count over
\* self.transactions.
RuleInputs ==
    IF impl = "module"
    THEN {SubSeq(transactions, 1, n) : n \in 0..Len(transactions)}
    ELSE {transactions}

\* The call of the rule generator of the running implementation.
CallGenerateRules(order, ts) ==
    CASE impl = "module" ->
           generate_association_rules(frequent_itemsets, ts, min_confidence, order)
      [] impl = "BruteForceMiner" ->
           BruteForceMiner_generate_association_rules(order)
      [] impl = "InteractiveMiner" ->
           InteractiveMiner_generate_rules(frequent_itemsets, min_confidence, order)

\* The rule generation that follows mining.
GenerateRules ==
    /\ pc = "mined"
    /\ \E order \in Orders, ts \in RuleInputs :
         \E res \in {CallGenerateRules(order, ts)} :
            /\ rules' = res.rules
            /\ err' = res.err
            /\ pc' = IF res.err = "none" THEN "done" ELSE "failed"
            /\ rule_transactions' = ts
    /\ UNCHANGED <<loads, algo_choice>>
    /\ UNCHANGED <<impl, min_support, min_confidence, transactions,
                   num_transactions, all_items, items_list, k, all_k_itemsets,
                   i, frequent_k, frequent_itemsets>>

Next ==
    \/ \E db \in Databases : load_transactions(db)
    \/ StartMining
    \/ TestItemset
    \/ StopMining
    \/ AdvanceLevel
    \/ GenerateRules

Spec == Init /\ [][Next]_vars

----------------------------------------------------------------------------
(* One miner object loaded more than once *)

\* load_transactions called again on the same BruteForceMiner or
\* InteractiveMiner, after a load or after a mining run.  BruteForceMiner
\* resets self.transactions only; InteractiveMiner resets self.all_items too.
\* The locals of the mining run that returned are gone; the table returned by
\* InteractiveMiner.run_brute_force is not kept by the miner.
load_transactions_again(db) ==
    /\ pc \in {"loaded", "mined"}
    /\ Len(loads) <= MaxReloads
    /\ transactions' = db
    /\ all_items' = IF impl = "BruteForceMiner"
                    THEN all_items \cup ItemsOf(db)
                    ELSE ItemsOf(db)
    /\ num_transactions' = Len(db)
    /\ frequent_itemsets' = IF impl = "BruteForceMiner"
                            THEN frequent_itemsets ELSE EmptyDict
    /\ items_list' = <<>>
    /\ k' = 0
    /\ all_k_itemsets' = <<>>
    /\ i' = 0
    /\ frequent_k' = <<>>
    /\ loads' = Append(loads, "ok")
    /\ pc' = "loaded"
    /\ UNCHANGED <<impl, min_support, min_confidence, rule_transactions,
                   rules, err, algo_choice>>

\* A miner object of one of the two classes; no rules are generated here.
InitReload ==
    /\ Init
    /\ impl \in {"BruteForceMiner", "InteractiveMiner"}
    /\ min_confidence = <<1, 2>>

NextReload ==
    \/ \E db \in Databases : load_transactions(db)
    \/ \E db \in Databases : load_transactions_again(db)
    \/ StartMining
    \/ TestItemset
    \/ StopMining
    \/ AdvanceLevel

ReloadSpec == InitReload /\ [][NextReload]_vars

----------------------------------------------------------------------------
(* Parameters as the entry points take them *)

\* What a user can type or a caller can pass: the values above, a negative
\* min_support, and a min_confidence below 0 or above 1.
RawSupports == MinSupports \cup {<<-1, 2>>}

RawConfidences == MinConfidences \cup {<<-1, 2>>, <<3, 2>>}

\* InteractiveMiner.get_parameters leaves its two input loops only with
\* 0 <= min_support <= 1 or min_support >= 1, and 0 <= min_confidence <= 1.
get_parameters_accepts(ms, mc) ==
    /\ \/ RatGE(ms, <<0, 1>>) /\ RatGE(<<1, 1>>, ms)
       \/ RatGE(ms, <<1, 1>>)
    /\ RatGE(mc, <<0, 1>>) /\ RatGE(<<1, 1>>, mc)

\* brute_force_mining.main takes any float as min_support and leaves its
\* second input loop only with 0 <= min_confidence <= 1.
main_accepts(ms, mc) ==
    RatGE(mc, <<0, 1>>) /\ RatGE(<<1, 1>>, mc)

\* The state after the parameters were taken: InteractiveMiner through
\* get_parameters, BruteForceMiner(min_support, min_confidence) as main
\* constructs it, the module functions as any caller calls them.
InitConfig ==
    /\ impl \in Impls
    /\ min_support \in RawSupports
    /\ min_confidence \in RawConfidences
    /\ impl = "InteractiveMiner" => get_parameters_accepts(min_support, min_confidence)
    /\ impl = "BruteForceMiner" => main_accepts(min_support, min_confidence)
    /\ transactions = <<>>
    /\ num_transactions = 0
    /\ all_items = {}
    /\ items_list = <<>>
    /\ k = 0
    /\ all_k_itemsets = <<>>
    /\ i = 0
    /\ frequent_k = <<>>
    /\ frequent_itemsets = EmptyDict
    /\ rule_transactions = <<>>
    /\ rules = <<>>
    /\ err = "none"
    /\ loads = <<>>
    /\ algo_choice = "None"
    /\ pc = "init"

ConfigSpec == InitConfig /\ [][Next]_vars

\* The mining function is sequential code: once it is called, its next
\* statement is executed whenever there is one.
FairSpec ==
    /\ Spec
    /\ WF_vars(StartMining)
    /\ WF_vars(TestItemset)
    /\ WF_vars(StopMining)
    /\ WF_vars(AdvanceLevel)

----------------------------------------------------------------------------
(* The interactive loop of InteractiveMiner.run *)

\* Keys of self.algorithms: Brute Force, Apriori, FP-Growth.
Algorithms == {"1", "2", "3"}

\* The miner as __init__ leaves it, at the first database prompt.  The
\* locals of run (algo_choice, min_support, min_confidence) are not assigned
\* yet; <<0, 1>> and "None" stand for an unassigned local.
InitRun ==
    /\ impl = "InteractiveMiner"
    /\ min_support = <<0, 1>>
    /\ min_confidence = <<0, 1>>
    /\ transactions = <<>>
    /\ num_transactions = 0
    /\ all_items = {}
    /\ items_list = <<>>
    /\ k = 0
    /\ all_k_itemsets = <<>>
    /\ i = 0
    /\ frequent_k = <<>>
    /\ frequent_itemsets = EmptyDict
    /\ rule_transactions = <<>>
    /\ rules = <<>>
    /\ err = "none"
    /\ loads = <<>>
    /\ algo_choice = "None"
    /\ pc = "select_database"

\* select_database returns None on 'q': run leaves its loop.
select_database_quit ==
    /\ pc = "select_database"
    /\ pc' = "quit"
    /\ UNCHANGED <<impl, min_support, min_confidence, transactions,
                   num_transactions, all_items, items_list, k, all_k_itemsets,
                   i, frequent_k, frequent_itemsets, rule_transactions, rules,
                   err, loads, algo_choice>>

\* A database is chosen and its file is read: run goes on to the
\* algorithm prompt.
run_load_transactions(db) ==
    /\ pc = "select_database"
    /\ Len(loads) < MaxLoads
    /\ transactions' = db
    /\ all_items' = ItemsOf(db)
    /\ num_transactions' = Len(db)
    /\ loads' = Append(loads, "ok")
    /\ pc' = "select_algorithm"
    /\ UNCHANGED <<impl, min_support, min_confidence, items_list, k,
                   all_k_itemsets, i, frequent_k, frequent_itemsets,
                   rule_transactions, rules, err, algo_choice>>

\* Variant: the except branch falls through to the algorithm prompt.
run_load_not_found_proceed ==
    /\ pc = "select_database"
    /\ Len(loads) < MaxLoads
    /\ transactions' = <<>>
    /\ all_items' = {}
    /\ loads' = Append(loads, "FileNotFoundError")
    /\ pc' = "select_algorithm"
    /\ UNCHANGED <<impl, min_support, min_confidence, num_transactions,
                   items_list, k, all_k_itemsets, i, frequent_k,
                   frequent_itemsets, rule_transactions, rules, err,
                   algo_choice>>

\* A database is chosen and open() raises FileNotFoundError:
\* load_transactions has already emptied self.transactions and
\* self.all_items, self.num_transactions keeps its old value, and run
\* continues with the next iteration.
run_load_not_found ==
    /\ pc = "select_database"
    /\ Len(loads) < MaxLoads
    /\ transactions' = <<>>
    /\ all_items' = {}
    /\ loads' = Append(loads, "FileNotFoundError")
    /\ pc' = "select_database"
    /\ UNCHANGED <<impl, min_support, min_confidence, num_transactions,
                   items_list, k, all_k_itemsets, i, frequent_k,
                   frequent_itemsets, rule_transactions, rules, err,
                   algo_choice>>

\* select_algorithm returns None on 'b': run continues with the next
\* iteration.
select_algorithm_back ==
    /\ pc = "select_algorithm"
    /\ algo_choice' = "None"
    /\ pc' = "select_database"
    /\ UNCHANGED <<impl, min_support, min_confidence, transactions,
                   num_transactions, all_items, items_list, k, all_k_itemsets,
                   i, frequent_k, frequent_itemsets, rule_transactions, rules,
                   err, loads>>

\* select_algorithm returns a key of self.algorithms.
select_algorithm(choice) ==
    /\ pc = "select_algorithm"
    /\ algo_choice' = choice
    /\ pc' = "get_parameters"
    /\ UNCHANGED <<impl, min_support, min_confidence, transactions,
                   num_transactions, all_items, items_list, k, all_k_itemsets,
                   i, frequent_k, frequent_itemsets, rule_transactions, rules,
                   err, loads>>

\* get_parameters returns the first pair its input loops accept, and run
\* calls the chosen algorithm: run_brute_force is the mining run modelled
\* above, run_apriori and run_fpgrowth hand the miner state to mlxtend.
get_parameters(ms, mc) ==
    /\ pc = "get_parameters"
    /\ get_parameters_accepts(ms, mc)
    /\ min_support' = ms
    /\ min_confidence' = mc
    /\ pc' = IF algo_choice = "1" THEN "loaded" ELSE "library"
    /\ UNCHANGED <<impl, transactions, num_transactions, all_items,
                   items_list, k, all_k_itemsets, i, frequent_k,
                   frequent_itemsets, rule_transactions, rules, err, loads,
                   algo_choice>>

\* run_apriori or run_fpgrowth returns; neither writes to the miner.
run_library ==
    /\ pc = "library"
    /\ pc' = "done"
    /\ UNCHANGED <<impl, min_support, min_confidence, transactions,
                   num_transactions, all_items, items_list, k, all_k_itemsets,
                   i, frequent_k, frequent_itemsets, rule_transactions, rules,
                   err, loads, algo_choice>>

\* 'n' (anything but 'q') at the last prompt: the next iteration starts.
\* The miner keeps its fields; the locals of the finished iteration are
\* dropped.
new_analysis ==
    /\ pc = "done"
    /\ min_support' = <<0, 1>>
    /\ min_confidence' = <<0, 1>>
    /\ algo_choice' = "None"
    /\ items_list' = <<>>
    /\ k' = 0
    /\ all_k_itemsets' = <<>>
    /\ i' = 0
    /\ frequent_k' = <<>>
    /\ frequent_itemsets' = EmptyDict
    /\ rule_transactions' = <<>>
    /\ rules' = <<>>
    /\ pc' = "select_database"
    /\ UNCHANGED <<impl, transactions, num_transactions, all_items, err,
                   loads>>

\* 'q' at the last prompt.
quit_after_analysis ==
    /\ pc = "done"
    /\ pc' = "quit"
    /\ UNCHANGED <<impl, min_support, min_confidence, transactions,
                   num_transactions, all_items, items_list, k, all_k_itemsets,
                   i, frequent_k, frequent_itemsets, rule_transactions, rules,
                   err, loads, algo_choice>>

NextRun ==
    \/ select_database_quit
    \/ \E db \in Databases : run_load_transactions(db)
    \/ run_load_not_found
    \/ select_algorithm_back
    \/ \E choice \in Algorithms : select_algorithm(choice)
    \/ \E ms \in RawSupports, mc \in RawConfidences : get_parameters(ms, mc)
    \/ StartMining
    \/ TestItemset
    \/ StopMining
    \/ AdvanceLevel
    \/ GenerateRules
    \/ run_library
    \/ new_analysis
    \/ quit_after_analysis

RunSpec == InitRun /\ [][NextRun]_vars

----------------------------------------------------------------------------
(* Definitions the properties are stated with *)

\* Number of transactions of T that are supersets of I.
Count(I, T) == Cardinality({j \in DOMAIN T : I \subseteq T[j]})

KSubsets(S, n) == {X \in SUBSET S : Cardinality(X) = n}

RECURSIVE Binomial(_, _)
Binomial(n, r) ==
    IF r = 0 THEN 1
    ELSE IF n = 0 THEN 0
    ELSE Binomial(n - 1, r - 1) + Binomial(n - 1, r)

\* Lexicographic order of two tuples of the same length.
RECURSIVE LexLess(_, _)
LexLess(a, b) ==
    /\ a # <<>>
    /\ \/ Head(a) < Head(b)
       \/ Head(a) = Head(b) /\ LexLess(Tail(a), Tail(b))

\* The minimum-support test as the specification words it.
MeetsMinSupport(I) ==
    IF min_support[1] < min_support[2]
    THEN Count(I, transactions) * min_support[2]
            >= min_support[1] * Len(transactions)
    ELSE Count(I, transactions) * min_support[2] >= min_support[1]

Recorded(recs) == {recs[j][1] : j \in DOMAIN recs}

Finished == pc \in {"mined", "done", "failed"}

----------------------------------------------------------------------------
(* Properties *)

\* C1: for every itemset and the loaded transaction list, each of the three
\* get_support_count functions returns the number of transactions that are
\* supersets of the itemset, duplicates counted separately, so the result lies
\* in 0..len(transactions); the counts recorded by mining are these numbers.
C1_SupportCount ==
    /\ \A I \in Itemsets :
         /\ get_support_count(I, transactions) = Count(I, transactions)
         /\ BruteForceMiner_get_support_count(I) = Count(I, transactions)
         /\ InteractiveMiner_get_support_count(I) = Count(I, transactions)
         /\ get_support_count(I, transactions) \in 0..Len(transactions)
    /\ \A j \in DOMAIN frequent_k :
         frequent_k[j][2] = Count(frequent_k[j][1], transactions)

\* A list with two equal transactions, and a recorded itemset counted twice.
C1_Witness ==
    /\ pc = "testing"
    /\ Len(transactions) = 2
    /\ transactions[1] = transactions[2]
    /\ \E j \in DOMAIN frequent_k : frequent_k[j][2] = 2

\* C2: a tested itemset is recorded as frequent exactly when its count is
\* at least min_support * numTransactions for min_support < 1, and at least
\* min_support for min_support >= 1.
C2_DualInterpretation ==
    \A j \in 1..i :
        (all_k_itemsets[j] \in Recorded(frequent_k))
            <=> MeetsMinSupport(all_k_itemsets[j])

\* min_support = 1 acts as the absolute count 1: an itemset contained in one
\* of two transactions is recorded.
C2_Witness ==
    /\ pc = "testing"
    /\ min_support = <<1, 1>>
    /\ Len(transactions) = 2
    /\ \E j \in DOMAIN frequent_k : frequent_k[j][2] = 1

\* C3: the candidates of size k are all the k-combinations of the universe,
\* each exactly once, C(|universe|, k) of them, in the lexicographic order of
\* the sorted universe, whatever was found frequent at smaller sizes; the
\* loop tests them one by one and the level ends only after the last one.
C3_AllCombinations ==
    pc \in {"testing", "mined", "done", "failed"} =>
        /\ {all_k_itemsets[j] : j \in DOMAIN all_k_itemsets} = KSubsets(all_items, k)
        /\ Len(all_k_itemsets) = Binomial(Cardinality(all_items), k)
        /\ \A a, b \in DOMAIN all_k_itemsets :
             a < b => LexLess(sorted(all_k_itemsets[a]), sorted(all_k_itemsets[b]))
        /\ i <= Len(all_k_itemsets)
        /\ Finished => i = Len(all_k_itemsets)

\* All 2-itemsets were tested although one of the items is not frequent.
C3_Witness ==
    /\ pc = "testing"
    /\ k = 2
    /\ i = Len(all_k_itemsets)
    /\ i > 1
    /\ \E x \in all_items : {x} \notin Recorded(frequent_itemsets[1])

\* C4: the table always holds exactly the sizes 1..k-1 (so mining starts at
\* k = 1), each with a non-empty list; mining stops only after every
\* k-itemset was tested and none was frequent, and k is the first such size.
C4_StopsAtFirstEmptyLevel ==
    pc \in {"testing", "mined", "done", "failed"} =>
        /\ k >= 1
        /\ DOMAIN frequent_itemsets = 1..(k - 1)
        /\ \A j \in DOMAIN frequent_itemsets : frequent_itemsets[j] # <<>>
        /\ \A j \in 1..(k - 1) :
             \E I \in KSubsets(all_items, j) : MeetsMinSupport(I)
        /\ Finished =>
             /\ i = Len(all_k_itemsets)
             /\ \A I \in KSubsets(all_items, k) : ~MeetsMinSupport(I)

\* Mining stopped at k = 3 with the sizes 1 and 2 in the table.
C4_Witness ==
    /\ pc = "mined"
    /\ k = 3
    /\ all_k_itemsets # <<>>
    /\ DOMAIN frequent_itemsets = {1, 2}

\* The rules as a set, and the splits the specification asks for.
RuleSet == {rules[j] : j \in DOMAIN rules}

TableRecords ==
    UNION {{frequent_itemsets[kk][j] : j \in DOMAIN frequent_itemsets[kk]} :
             kk \in DOMAIN frequent_itemsets}

ProperParts(I) == (SUBSET I) \ {{}, I}

ExpectedSplits ==
    UNION {{<<A, rec[1] \ A>> :
              A \in {X \in ProperParts(rec[1]) :
                       /\ Count(X, rule_transactions) # 0
                       /\ rec[2] * min_confidence[2]
                            >= min_confidence[1] * Count(X, rule_transactions)}} :
             rec \in {r \in TableRecords : Cardinality(r[1]) >= 2}}

GeneratorEnded == pc \in {"done", "failed"}

SameTransactions == rule_transactions = transactions

\* C5: in the module-level generator and in InteractiveMiner.generate_rules
\* the emitted rules are exactly the splits (A, I - A) of the records (I, c)
\* of size >= 2 with A a non-empty proper subset of I, count(A) # 0 and
\* c / count(A) >= min_confidence, each once; a split with count(A) = 0 is
\* passed over without a division error.
C5_ExactRuleSet ==
    (GeneratorEnded /\ impl \in {"module", "InteractiveMiner"}) =>
        /\ {<<r.antecedent, r.consequent>> : r \in RuleSet} = ExpectedSplits
        /\ Len(rules) = Cardinality(ExpectedSplits)
        /\ err # "ZeroDivisionError"

\* Rules were emitted while another split had an antecedent of count 0.
C5_Witness ==
    /\ pc = "done"
    /\ impl \in {"module", "InteractiveMiner"}
    /\ rules # <<>>
    /\ \E rec \in TableRecords : \E A \in ProperParts(rec[1]) :
         Count(A, rule_transactions) = 0

\* C6: every emitted rule A => B comes from a record (I, c) of the table with
\* I = A u B and carries support = c / numTransactions, confidence =
\* c / count(A) and, when count(B) > 0, lift = confidence /
\* (count(B) / numTransactions), as exact rationals.
C6_Metrics ==
    GeneratorEnded =>
      \A r \in RuleSet :
        LET n == Len(rule_transactions)
            a == Count(r.antecedent, rule_transactions)
            b == Count(r.consequent, rule_transactions)
        IN \E rec \in TableRecords :
             /\ rec[1] = r.antecedent \cup r.consequent
             /\ r.support[2] > 0 /\ r.confidence[2] > 0 /\ r.lift[2] > 0
             /\ r.support[1] * n = rec[2] * r.support[2]
             /\ r.confidence[1] * a = rec[2] * r.confidence[2]
             /\ b > 0 => r.lift[1] * (a * b) = (rec[2] * n) * r.lift[2]

\* A rule with support 1/2, confidence 1 and lift 2.
C6_Witness ==
    /\ pc = "done"
    /\ \E r \in RuleSet :
         /\ r.support = <<1, 2>>
         /\ r.confidence = <<1, 1>>
         /\ r.lift = <<2, 1>>

\* C7: in the returned rule list every rule has a larger confidence than its
\* successor, or the same confidence and a support that is not smaller.
C7_Ordering ==
    pc = "done" =>
      \A j \in 1..(Len(rules) - 1) :
        \/ RatGT(rules[j].confidence, rules[j + 1].confidence)
        \/ /\ RatEQ(rules[j].confidence, rules[j + 1].confidence)
           /\ RatGE(rules[j].support, rules[j + 1].support)

\* A returned list with a step down in confidence and a tie in confidence
\* with a step down in support.
C7_Witness ==
    /\ pc = "done"
    /\ \E j \in 1..(Len(rules) - 1) :
         RatGT(rules[j].confidence, rules[j + 1].confidence)
    /\ \E j \in 1..(Len(rules) - 1) :
         /\ RatEQ(rules[j].confidence, rules[j + 1].confidence)
         /\ RatGT(rules[j].support, rules[j + 1].support)

\* C8: when no 1-itemset is frequent the table is empty, and rule generation
\* on the empty table ends without an error and with an empty rule list, in
\* each of the three rule generators.
C8_EmptyTableHandled ==
    /\ (Finished /\ k = 1) => frequent_itemsets = EmptyDict
    /\ (GeneratorEnded /\ frequent_itemsets = EmptyDict) =>
         /\ pc = "done"
         /\ err = "none"
         /\ rules = <<>>

\* C9: rule generation over the mined transactions never ends in a division
\* by zero, and a rule whose consequent has support 0 carries lift = 0, in
\* each of the three rule generators.
C9_NoDivisionByZero ==
    (GeneratorEnded /\ SameTransactions) =>
        /\ err # "ZeroDivisionError"
        /\ \A r \in RuleSet :
             Count(r.consequent, transactions) = 0 => r.lift = <<0, 1>>

\* C10 as stated: every rule emitted from the table mined from the same
\* transactions has 0 < confidence <= 1 and confidence >= min_confidence.
C10_ConfidenceBounds ==
    (GeneratorEnded /\ SameTransactions) =>
      \A r \in RuleSet :
        /\ RatGT(r.confidence, <<0, 1>>)
        /\ RatGE(<<1, 1>>, r.confidence)
        /\ RatGE(r.confidence, min_confidence)

\* C10 amended: every such rule has 0 <= confidence <= 1 and confidence >=
\* min_confidence, and confidence > 0 whenever min_support > 0.
C10_ConfidenceBoundsAmended ==
    (GeneratorEnded /\ SameTransactions) =>
      \A r \in RuleSet :
        /\ r.confidence[2] > 0
        /\ RatGE(r.confidence, <<0, 1>>)
        /\ RatGE(<<1, 1>>, r.confidence)
        /\ RatGE(r.confidence, min_confidence)
        /\ min_support[1] > 0 => RatGT(r.confidence, <<0, 1>>)

\* A rule of confidence 1/2 from a table mined with a positive min_support.
C10_Witness ==
    /\ pc = "done"
    /\ SameTransactions
    /\ min_support[1] > 0
    /\ \E r \in RuleSet : r.confidence = <<1, 2>>

----------------------------------------------------------------------------
(* Boundary values of min_support *)

InEveryTransaction(I) == \A j \in DOMAIN transactions : I \subseteq transactions[j]

InSomeTransaction(I) == \E j \in DOMAIN transactions : I \subseteq transactions[j]

TableItemsets == {rec[1] : rec \in TableRecords}

\* C11 as stated: after mining with min_support = 1.0, or with min_support
\* equal to the number of transactions as an absolute count, the table
\* contains only itemsets that are present in every transaction.
C11_OnlyInEveryTransaction ==
    (Finished /\ (min_support = <<1, 1>>
                    \/ (min_support = <<Len(transactions), 1>>
                         /\ Len(transactions) >= 1))) =>
        \A I \in TableItemsets : InEveryTransaction(I)

\* C11 amended: with min_support equal to the number of transactions (>= 1)
\* as an absolute count the table holds exactly the itemsets present in every
\* transaction; min_support = 1.0 is the absolute count 1, and the table
\* holds exactly the itemsets present in at least one transaction.
C11_BoundaryAmended ==
    Finished =>
        /\ (min_support = <<Len(transactions), 1>> /\ Len(transactions) >= 1) =>
             TableItemsets = {I \in Itemsets : InEveryTransaction(I)}
        /\ min_support = <<1, 1>> =>
             TableItemsets = {I \in Itemsets : InSomeTransaction(I)}

\* Two different transactions mined with min_support = 2: something is
\* recorded and something that occurs once is not.
C11_Witness ==
    /\ pc = "mined"
    /\ min_support = <<2, 1>>
    /\ Len(transactions) = 2
    /\ TableItemsets # {}
    /\ \E I \in Itemsets : InSomeTransaction(I) /\ I \notin TableItemsets

----------------------------------------------------------------------------
(* The worked example *)

ExampleMined ==
    /\ Finished
    /\ transactions = ExampleTransactions
    /\ min_support = <<1, 2>>

\* C12 as stated: for the transactions {A,B}, {A,B,C}, {A}, {B,C} and
\* min_support = 0.5 mining yields the 1-itemsets {A}: 3, {B}: 3, {C}: 2,
\* the single 2-itemset {A,B}: 2, and stops at k = 3.
C12_Example ==
    ExampleMined =>
        /\ frequent_itemsets = <<
               << <<{1}, 3>>, <<{2}, 3>>, <<{3}, 2>> >>,
               << <<{1, 2}, 2>> >> >>
        /\ k = 3

\* C12 amended: the 1-itemsets are {A}: 3, {B}: 3, {C}: 2, the 2-itemsets
\* are {A,B}: 2 and {B,C}: 2 ({B,C} is in {A,B,C} and in {B,C}), no
\* 3-itemset is frequent and mining stops at k = 3.
C12_ExampleAmended ==
    ExampleMined =>
        /\ frequent_itemsets = <<
               << <<{1}, 3>>, <<{2}, 3>>, <<{3}, 2>> >>,
               << <<{1, 2}, 2>>, <<{2, 3}, 2>> >> >>
        /\ k = 3

\* The example was mined.
C12_Witness ==
    /\ pc = "mined"
    /\ ExampleMined
    /\ i = 1
    /\ all_k_itemsets = << {1, 2, 3} >>

----------------------------------------------------------------------------
(* Order of the records of one size *)

\* C13 as stated: the list recorded in the table for each size k is sorted
\* by descending support count, ties in canonical (lexicographic) itemset
\* order.
C13_SortedByCount ==
    \A kk \in DOMAIN frequent_itemsets :
      \A j \in 1..(Len(frequent_itemsets[kk]) - 1) :
        LET a == frequent_itemsets[kk][j]
            b == frequent_itemsets[kk][j + 1]
        IN \/ a[2] > b[2]
           \/ a[2] = b[2] /\ LexLess(sorted(a[1]), sorted(b[1]))

\* C13 amended: the list recorded in the table for each size k is in the
\* canonical (lexicographic) itemset order in which the candidates are
\* generated, whatever the support counts are.
C13_CandidateOrderAmended ==
    \A kk \in DOMAIN frequent_itemsets :
      \A a, b \in DOMAIN frequent_itemsets[kk] :
        a < b => LexLess(sorted(frequent_itemsets[kk][a][1]),
                         sorted(frequent_itemsets[kk][b][1]))

\* A recorded list in which a smaller count comes before a larger one.
C13_Witness ==
    /\ pc = "mined"
    /\ \E kk \in DOMAIN frequent_itemsets :
         \E j \in 1..(Len(frequent_itemsets[kk]) - 1) :
           frequent_itemsets[kk][j][2] < frequent_itemsets[kk][j + 1][2]

----------------------------------------------------------------------------
(* Determinism and the order of rules with equal metrics *)

\* C14: a second run on the same inputs gives the same table and the same
\* rule sequence, whatever order the interpreter of that run iterates the
\* itemsets in.  Mining has no choice to make; the rule generator run again
\* on the same table and transactions under any iteration order must return
\* the sequence this run returned.
C14_Deterministic ==
    GeneratorEnded =>
      \A order \in Orders :
         /\ CallGenerateRules(order, rule_transactions).rules = rules
         /\ CallGenerateRules(order, rule_transactions).err = err

\* C15 as stated: the order by (confidence, support) is total on the emitted
\* rules, no two rules at different positions of the returned list have the
\* same confidence and the same support.
C15_TotalOrder ==
    pc = "done" =>
      \A a, b \in DOMAIN rules :
        a # b => RuleKey(rules[a]) # RuleKey(rules[b])

\* Number of returned rules whose key is larger than, or the same as, key.
KeysAbove(key) == Cardinality({j \in DOMAIN rules : KeyGT(RuleKey(rules[j]), key)})

KeysSame(key) == Cardinality({j \in DOMAIN rules : RuleKey(rules[j]) = key})

\* C15 amended: the order by (confidence, support) is a total preorder on the
\* emitted rules; rules with a larger key all come before a rule and rules
\* with a smaller key all come after it, so the metrics fix a rule's position
\* up to the block of rules that have the same confidence and support.
C15_PositionUpToTiesAmended ==
    pc = "done" =>
      \A p \in DOMAIN rules :
        /\ KeysAbove(RuleKey(rules[p])) < p
        /\ p <= KeysAbove(RuleKey(rules[p])) + KeysSame(RuleKey(rules[p]))

\* A returned list with two rules of the same key and a rule of another key.
C15_Witness ==
    /\ pc = "done"
    /\ \E a, b \in DOMAIN rules :
         /\ a # b
         /\ RuleKey(rules[a]) = RuleKey(rules[b])
         /\ rules[a].antecedent # rules[b].antecedent
    /\ \E a, b \in DOMAIN rules : KeyGT(RuleKey(rules[a]), RuleKey(rules[b]))

----------------------------------------------------------------------------
(* Inputs on which nothing is frequent *)

\* C16: with an empty transaction list the universe is empty, the first
\* candidate list (k = 1) is empty, so mining arrives at its end without
\* testing anything, with k = 1 and an empty table, and no error is raised
\* up to the end of mining, for every min_support.
C16_EmptyInput ==
    (pc # "init" /\ transactions = <<>>) =>
        /\ all_items = {}
        /\ pc = "testing" =>
             /\ k = 1
             /\ all_k_itemsets = <<>>
             /\ ENABLED StopMining
             /\ ~ENABLED TestItemset
             /\ ~ENABLED AdvanceLevel
        /\ Finished =>
             /\ k = 1
             /\ i = 0
             /\ frequent_itemsets = EmptyDict
        /\ pc \in {"loaded", "testing", "mined"} => err = "none"

\* Mining of the empty list ended, with min_support = 0.
C16_Witness ==
    /\ pc = "mined"
    /\ transactions = <<>>
    /\ min_support = <<0, 1>>
    /\ frequent_itemsets = EmptyDict

MinSupportAboveAll ==
    /\ RatGT(min_support, <<1, 1>>)
    /\ RatGT(min_support, <<Len(transactions), 1>>)

\* C17: when min_support is greater than 1 and greater than the number of
\* transactions, every 1-itemset is tested and none is found frequent; mining
\* ends at k = 1 with an empty table.
C17_MinSupportAboveAll ==
    (pc \in {"testing", "mined", "done", "failed"} /\ MinSupportAboveAll) =>
        /\ k = 1
        /\ frequent_k = <<>>
        /\ frequent_itemsets = EmptyDict
        /\ Finished => i = Cardinality(all_items)

\* Two transactions mined with min_support = 3: items were tested.
C17_Witness ==
    /\ pc = "mined"
    /\ min_support = <<3, 1>>
    /\ Len(transactions) = 2
    /\ i >= 2
    /\ \E I \in Itemsets : InEveryTransaction(I)

----------------------------------------------------------------------------
(* Shape of the rules and of the table *)

\* C18: every emitted rule has a non-empty antecedent and a non-empty
\* consequent, the two are disjoint, and their union is an itemset recorded
\* in the table the rule generator was given.
C18_RuleStructure ==
    GeneratorEnded =>
      \A r \in RuleSet :
        /\ r.antecedent # {}
        /\ r.consequent # {}
        /\ r.antecedent \cap r.consequent = {}
        /\ (r.antecedent \cup r.consequent) \in TableItemsets

\* A rule with two items on one side and one on the other.
C18_Witness ==
    /\ pc = "done"
    /\ \E r \in RuleSet :
         /\ Cardinality(r.antecedent) = 2
         /\ Cardinality(r.consequent) = 1
    /\ \E r \in RuleSet :
         /\ Cardinality(r.antecedent) = 1
         /\ Cardinality(r.consequent) = 2

NumRecords(kk) == Len(frequent_itemsets[kk])

RECURSIVE SumRecords(_)
SumRecords(keys) ==
    IF keys = {} THEN 0
    ELSE LET kk == CHOOSE x \in keys : TRUE
         IN NumRecords(kk) + SumRecords(keys \ {kk})

\* C19: in the table of a mining run on a fresh engine every record under
\* key k is a pair (itemset, count) whose itemset has exactly k items, all
\* from the universe, whose count is the support count of the itemset over
\* the transactions and whose itemset passes the minimum-support test; no
\* itemset is in two records.
C19_RecordInvariants ==
    /\ \A kk \in DOMAIN frequent_itemsets :
         \A j \in DOMAIN frequent_itemsets[kk] :
           LET rec == frequent_itemsets[kk][j]
           IN /\ Len(rec) = 2
              /\ Cardinality(rec[1]) = kk
              /\ rec[1] \subseteq all_items
              /\ rec[2] = Count(rec[1], transactions)
              /\ MeetsMinSupport(rec[1])
    /\ SumRecords(DOMAIN frequent_itemsets) = Cardinality(TableItemsets)

\* A finished table with records of size 1 and 2, counts 1 and 2.
C19_Witness ==
    /\ pc = "mined"
    /\ DOMAIN frequent_itemsets = {1, 2}
    /\ \E rec \in TableRecords : rec[2] = 1
    /\ \E rec \in TableRecords : rec[2] = 2
    /\ min_support = <<1, 2>>

\* C20: for every itemset I recorded as frequent with count c, every
\* non-empty subset S of I is recorded under the size |S|, with a count that
\* is the support count of S and is at least c.
C20_AntiMonotone ==
    \A recI \in TableRecords :
      \A S \in (SUBSET recI[1]) \ {{}} :
        /\ Cardinality(S) \in DOMAIN frequent_itemsets
        /\ \E j \in DOMAIN frequent_itemsets[Cardinality(S)] :
             LET recS == frequent_itemsets[Cardinality(S)][j]
             IN /\ recS[1] = S
                /\ recS[2] >= recI[2]
                /\ recS[2] = CallGetSupportCount(S)

\* A recorded 2-itemset with a subset of strictly larger count.
C20_Witness ==
    /\ pc = "mined"
    /\ \E recI, recS \in TableRecords :
         /\ Cardinality(recI[1]) = 2
         /\ recS[1] \subseteq recI[1]
         /\ recS[2] > recI[2]
         /\ recI[2] > 0

----------------------------------------------------------------------------
(* The three implementations, and the order of the transactions *)

\* C29: for every transaction list, universe and min_support the mining
\* loop of each implementation (the module function, InteractiveMiner
\* .run_brute_force, BruteForceMiner.find_frequent_itemsets on a fresh
\* miner) ends with the table brute_force_mining returns for these inputs:
\* same keys, same records, same order.
C29_ImplementationsAgree ==
    Finished =>
        frequent_itemsets = brute_force_mining(transactions, all_items, min_support)

\* A class implementation ended with a table of two sizes.
C29_Witness ==
    /\ pc = "mined"
    /\ impl # "module"
    /\ DOMAIN frequent_itemsets = {1, 2}
    /\ Len(frequent_itemsets[1]) = 3

\* The reorderings of a list.
Reorderings(T) ==
    {[j \in DOMAIN T |-> T[p[j]]] :
        p \in {q \in [DOMAIN T -> DOMAIN T] :
                  \A a, b \in DOMAIN T : a # b => q[a] # q[b]}}

Metrics(r) == <<r.antecedent, r.consequent, r.support, r.confidence, r.lift>>

AscendingOrder == [j \in 1..NumItems |-> j]

\* C21: for every reordering T' of the transaction list every itemset has
\* the same support count over T' as over T (module function and the two
\* class methods); mining T' gives the same table, and generating the rules
\* over T' gives the same rules with the same metrics.
C21_PermutationInvariant ==
    /\ \A T2 \in Reorderings(transactions) :
         /\ \A I \in Itemsets :
              /\ get_support_count(I, T2) = get_support_count(I, transactions)
              /\ get_support_count(I, T2) = InteractiveMiner_get_support_count(I)
              /\ get_support_count(I, T2) = BruteForceMiner_get_support_count(I)
         /\ Finished =>
              brute_force_mining(T2, all_items, min_support) = frequent_itemsets
    /\ pc = "done" =>
         \A T2 \in Reorderings(rule_transactions) :
           {Metrics(r) : r \in RuleSet} =
           {Metrics(generate_association_rules(frequent_itemsets, T2,
                        min_confidence, AscendingOrder).rules[j]) :
              j \in DOMAIN generate_association_rules(frequent_itemsets, T2,
                        min_confidence, AscendingOrder).rules}

\* Rules were generated over two different transactions.
C21_Witness ==
    /\ pc = "done"
    /\ Len(rule_transactions) = 2
    /\ rule_transactions[1] # rule_transactions[2]
    /\ \E r \in RuleSet : r.confidence = <<1, 2>>

----------------------------------------------------------------------------
(* The zero-antecedent skip *)

\* The antecedents the rule generator meets: the non-empty proper subsets of
\* the recorded itemsets of size >= 2.
Antecedents ==
    UNION {ProperParts(rec[1]) : rec \in {r \in TableRecords : Cardinality(r[1]) >= 2}}

\* C25 as stated: for the table mined from the transactions, with any
\* min_support, every antecedent the rule generator meets over the same
\* transactions has a support count > 0, so the skip is never taken.
C25_SkipNeverTaken ==
    Finished =>
      \A A \in Antecedents :
        /\ Count(A, transactions) > 0
        /\ CallGetSupportCount(A) > 0

\* C25 amended: the same for min_support > 0; with min_support = 0 itemsets
\* of count 0 are recorded and an antecedent can have count 0.
C25_SkipNeverTakenAmended ==
    (Finished /\ min_support[1] > 0) =>
      \A A \in Antecedents :
        /\ Count(A, transactions) > 0
        /\ CallGetSupportCount(A) > 0

\* Rules were generated from a recorded 3-itemset, min_support = 0.5.
C25_Witness ==
    /\ pc = "done"
    /\ SameTransactions
    /\ min_support = <<1, 2>>
    /\ 3 \in DOMAIN frequent_itemsets
    /\ Len(transactions) = 2
    /\ transactions[1] # transactions[2]

----------------------------------------------------------------------------
(* Frame conditions *)

\* C26: no step of mining changes the transaction list or the universe, and
\* the rule generation changes neither the transaction list nor the table
\* (same keys, same records, same order).
C26_InputsUnchanged ==
    [][/\ pc \in {"loaded", "testing"} =>
            /\ transactions' = transactions
            /\ all_items' = all_items
       /\ pc = "mined" =>
            /\ transactions' = transactions
            /\ all_items' = all_items
            /\ frequent_itemsets' = frequent_itemsets]_vars

\* Mining went through three sizes and rules were generated.
C26_Witness ==
    /\ pc = "done"
    /\ DOMAIN frequent_itemsets = {1, 2, 3}
    /\ Len(rules) = 12
    /\ Len(transactions) = 2

----------------------------------------------------------------------------
(* Termination and completeness of the level-wise search *)

\* C27: the mining loop terminates for every transaction list, universe and
\* min_support, min_support = 0 included: once the transactions are loaded
\* the end of mining is reached, and the size k being tested, and so the
\* size at which mining stops, satisfies 1 <= k <= |universe| + 1.
C27_Terminates ==
    /\ [](pc \in {"testing", "mined"} =>
             (1 <= k /\ k <= Cardinality(all_items) + 1))
    /\ (pc = "loaded") ~> (pc = "mined")

\* min_support = 0: mining stopped at k = |universe| + 1 = 4.
C27_Witness ==
    /\ pc = "mined"
    /\ min_support = <<0, 1>>
    /\ Cardinality(all_items) = 3
    /\ k = 4
    /\ all_k_itemsets = <<>>

\* C28: when mining has stopped, the itemsets recorded in the table are
\* exactly the non-empty subsets of the universe that pass the
\* minimum-support test; none of a size at or beyond the stopping size passes.
C28_NothingLost ==
    Finished =>
        /\ TableItemsets = {I \in (SUBSET all_items) \ {{}} : MeetsMinSupport(I)}
        /\ \A I \in SUBSET all_items : Cardinality(I) >= k => ~MeetsMinSupport(I)

\* Mining stopped at k = 2 with a universe of three items: the 3-itemset
\* was never tested.
C28_Witness ==
    /\ pc = "mined"
    /\ k = 2
    /\ Cardinality(all_items) = 3
    /\ Len(frequent_itemsets[1]) = 1
    /\ min_support = <<2, 1>>

----------------------------------------------------------------------------
(* Parameters outside their range *)

ValidSupport == RatGE(min_support, <<0, 1>>)

ValidConfidence ==
    RatGE(min_confidence, <<0, 1>>) /\ RatGE(<<1, 1>>, min_confidence)

\* C22: no entry point goes on to mine or to derive rules with a min_support
\* below 0 or a min_confidence outside [0,1]: whenever mining or rule
\* generation is under way or over, both parameters are in range.
C22_InvalidConfigurationRejected ==
    pc \in {"testing", "mined", "done", "failed"} =>
        /\ ValidSupport
        /\ ValidConfidence

----------------------------------------------------------------------------
(* State kept by a miner between loads *)

\* C23: after any sequence of load_transactions and find_frequent_itemsets
\* calls on one BruteForceMiner the table holds only what the most recent
\* mining run found: the keys are 1..k-1 of that run and the table is the
\* one mining the current transactions returns.
C23_FreshTable ==
    (impl = "BruteForceMiner" /\ pc = "mined") =>
        /\ DOMAIN frequent_itemsets = 1..(k - 1)
        /\ frequent_itemsets =
             brute_force_mining(transactions, all_items, min_support)

\* C24: after any sequence of load_transactions calls on a miner the
\* universe is exactly the set of items of the currently loaded transactions.
C24_UniverseOfCurrentLoad ==
    pc # "init" => all_items = ItemsOf(transactions)

----------------------------------------------------------------------------
(* The interactive loop *)

\* An algorithm of self.algorithms has been called and has not returned.
Invoked == pc \in {"loaded", "library", "testing", "mined"}

\* C30: InteractiveMiner.run calls an algorithm only in an iteration whose
\* load succeeded and in which an algorithm and parameters were chosen, and
\* at the call the miner is consistent with that load: num_transactions is
\* the length of transactions and all_items is the union of the
\* transactions, whatever failed loads or 'b' back-outs came before.  A
\* failed load and 'b' lead back to the database prompt, and the only way to
\* a call is prompt by prompt: successful load, algorithm, parameters.
C30_InvokedOnlyAfterLoad ==
    /\ [](Invoked =>
            /\ loads # <<>>
            /\ loads[Len(loads)] = "ok"
            /\ algo_choice \in Algorithms
            /\ get_parameters_accepts(min_support, min_confidence)
            /\ num_transactions = Len(transactions)
            /\ all_items = ItemsOf(transactions))
    /\ [][/\ loads' = Append(loads, "FileNotFoundError")
             => pc' = "select_database"
          /\ (pc = "select_algorithm" /\ algo_choice' = "None")
             => pc' = "select_database"
          /\ (~Invoked /\ Invoked') => pc = "get_parameters"
          /\ (pc # "get_parameters" /\ pc' = "get_parameters")
             => (pc = "select_algorithm" /\ algo_choice' \in Algorithms)
          /\ (pc # "select_algorithm" /\ pc' = "select_algorithm")
             => (pc = "select_database" /\ loads' = Append(loads, "ok"))]_vars

\* The brute-force run of the third load is under way; the first load
\* succeeded and the second failed.
C30_Witness ==
    /\ pc = "testing"
    /\ i > 0
    /\ loads = <<"ok", "FileNotFoundError", "ok">>
    /\ algo_choice = "1"
    /\ Len(transactions) = 1

====
